---- MODULE Spec2Model ----
(***************************************************************************)
(* HealthLab backend (src/main.py, src/schemas.py): the test catalog, the  *)
(* booking creator, the report gate and the chat dispatcher, as a state    *)
(* machine over the document store's collections.                          *)
(*                                                                         *)
(* Each request handler is an operator from (store, request) to            *)
(* (store', response); the actions apply the handlers to requests drawn    *)
(* from small sets.  Python str values are TLA+ strings, except the chat   *)
(* text and the PINs, which are tuples of characters so that lower(),      *)
(* substring search and str() are computed, not assumed.                   *)
(***************************************************************************)
EXTENDS Integers, Sequences, FiniteSets, TLC

VARIABLES
    db,        \* TRUE iff the storage handle `db` is not None (fixed at start-up)
    tests,     \* collection "test": sequence of documents, in insertion order
    bookings,  \* collection "booking": sequence of documents; _id = Oid(index)
    reports,   \* collection "report": set of documents
    messages,  \* collection "message": sequence of documents (the chat log)
    last,      \* the response to the latest request: [op, status, kind]
    text,      \* SpecClassify only: the chat text under classification
    procs      \* SpecConc only: the in-flight requests, one per worker thread

vars == <<db, tests, bookings, reports, messages, last, text, procs>>

\* ------------------------------------------------------------------ bounds

MaxBookings == 2
MaxTests == 8
MaxMessages == 3
MaxWords == 2
Threads == 2

\* ------------------------------------------------------- values and strings

\* Python None in a field that otherwise holds a str.
None == "<None>"

\* Python truthiness of an Optional[str]: None and "" are falsy.
Truthy(s) == s # None /\ s # ""

UpperCase == <<"A","B","C","D","E","F","G","H","I","J","K","L","M",
               "N","O","P","Q","R","S","T","U","V","W","X","Y","Z">>
LowerCase == <<"a","b","c","d","e","f","g","h","i","j","k","l","m",
               "n","o","p","q","r","s","t","u","v","w","x","y","z">>

\* str.lower() on one character.
LowerChar(c) ==
    IF \E i \in 1..26 : UpperCase[i] = c
    THEN LowerCase[CHOOSE i \in 1..26 : UpperCase[i] = c]
    ELSE c

\* str.lower()
Lower(s) == [i \in 1..Len(s) |-> LowerChar(s[i])]

\* Python `k in s` for two strings: k occurs in s as a contiguous substring.
Contains(s, k) ==
    \E i \in 0..(Len(s) - Len(k)) : \A j \in 1..Len(k) : s[i + j] = k[j]

\* The keywords of the dispatcher and of the classifier, as character tuples.
K_report   == <<"r","e","p","o","r","t">>
K_view     == <<"v","i","e","w">>
K_show     == <<"s","h","o","w">>
K_dizzy    == <<"d","i","z","z","y">>
K_fever    == <<"f","e","v","e","r">>
K_fatigue  == <<"f","a","t","i","g","u","e">>
K_jaundice == <<"j","a","u","n","d","i","c","e">>
K_diabetes == <<"d","i","a","b","e","t","e","s">>
K_tired    == <<"t","i","r","e","d">>
K_weak     == <<"w","e","a","k">>
K_cold     == <<"c","o","l","d">>
K_cough    == <<"c","o","u","g","h">>
K_pain     == <<"p","a","i","n">>
K_yellow   == <<"y","e","l","l","o","w">>
K_sugar    == <<"s","u","g","a","r">>

\* any(k in text for k in ks), ks a sequence of keywords
AnyIn(ks, s) == \E i \in 1..Len(ks) : Contains(s, ks[i])

\* The elements of a sequence, as a set.
Range(q) == {q[i] : i \in 1..Len(q)}

\* ------------------------------------------------------------ static tables

\* SYMPTOM_TO_TESTS, in the dict's insertion order.
SYMPTOM_TO_TESTS ==
    << [symptom |-> K_dizzy,    tests |-> <<"CBC", "IRON">>],
       [symptom |-> K_fever,    tests |-> <<"CBC", "CRP">>],
       [symptom |-> K_fatigue,  tests |-> <<"IRON", "B12">>],
       [symptom |-> K_jaundice, tests |-> <<"LFT">>],
       [symptom |-> K_diabetes, tests |-> <<"FBS", "HBA1C">>] >>

\* DEFAULT_TESTS: code and price (name, category and preparation are carried
\* along unread by every handler and are left out).
DEFAULT_TESTS ==
    << [code |-> "CBC",   price |-> 20],
       [code |-> "IRON",  price |-> 25],
       [code |-> "LFT",   price |-> 30],
       [code |-> "CRP",   price |-> 22],
       [code |-> "B12",   price |-> 28],
       [code |-> "FBS",   price |-> 12],
       [code |-> "HBA1C", price |-> 18] >>

\* ------------------------------------------------------------ stored values

\* Python None where the field otherwise holds a float, a datetime or a PIN.
NoValue == [t |-> "none"]

\* float(x): prices are kept as numbers; the tag tells a price from None.
Float(x) == [t |-> "float", v |-> x]

\* A document id: str(ObjectId) of the n-th insert into a collection.
Oid(n) == [oid |-> n]

\* bson.ObjectId(s) accepts s (raises InvalidId otherwise).
IsObjectId(s) == DOMAIN s = {"oid"}

\* A request's id that is no ObjectId string.
NotAnOid == [bad |-> "not-an-object-id"]

\* A lenient parser in fromisoformat's place: any string is taken as a date.
fromisoformat_lenient(s) ==
    IF s = None THEN NoValue
    ELSE [t |-> "datetime", year |-> 2026, month |-> 11, day |-> 5, hour |-> 10, minute |-> 0]

\* datetime.fromisoformat on the strings the requests carry: the parsed
\* datetime, or NoValue where Python raises ValueError/TypeError (None included).
fromisoformat(s) ==
    IF s = "2026-11-05T10:00:00"
    THEN [t |-> "datetime", year |-> 2026, month |-> 11, day |-> 5, hour |-> 10, minute |-> 0]
    ELSE IF s = "2026-12-24T15:30:00"
    THEN [t |-> "datetime", year |-> 2026, month |-> 12, day |-> 24, hour |-> 15, minute |-> 30]
    ELSE NoValue

MonthAbbr == <<"Jan","Feb","Mar","Apr","May","Jun","Jul","Aug","Sep","Oct","Nov","Dec">>

\* d.strftime('%d %b %Y, %I:%M %p'), as its fields.
strftime(d) ==
    [day |-> d.day, mon |-> MonthAbbr[d.month], year |-> d.year,
     hour12 |-> IF d.hour % 12 = 0 THEN 12 ELSE d.hour % 12,
     minute |-> d.minute,
     ampm |-> IF d.hour < 12 THEN "AM" ELSE "PM"]

Digit == <<"0","1","2","3","4","5","6","7","8","9">>

\* str(n) for a natural number n, as a tuple of characters.
RECURSIVE IntToStr(_)
IntToStr(n) ==
    IF n < 10 THEN <<Digit[n + 1]>>
    ELSE Append(IntToStr(n \div 10), Digit[(n % 10) + 1])

\* str(x) for a stored PIN: a str is itself, an int its decimal digits, and
\* None the four characters "None".
Str(x) ==
    IF x.t = "str" THEN x.v
    ELSE IF x.t = "int" THEN IntToStr(x.v)
    ELSE <<"N","o","n","e">>

\* ------------------------------------------------------- the user collection

\* user_id strings of length 24 (len(str(user_id)) == 24): one that is 24 hex
\* digits and one that is not.
HexUserId == "64b7f0c2a1d3e4f5a6b7c8d9"
BadUserId == "user-0000-0000-0000-0001"
Len24(user_id) == user_id \in {HexUserId, BadUserId}

\* Collection "user" (schemas.User): no handler writes it.  _id is an ObjectId
\* or a plain string; pin is a str, an int stored by another writer, or None.
USERS ==
    << [_id |-> [t |-> "oid", v |-> HexUserId], pin |-> [t |-> "str", v |-> <<"1","2","3","4">>]],
      [_id |-> [t |-> "str", v |-> "u2"],      pin |-> [t |-> "int", v |-> 4321]],
      [_id |-> [t |-> "str", v |-> "u3"],      pin |-> NoValue] >>

\* ---------------------------------------------------------------- the store

\* db["test"].find_one({"code": code}): the index of the first match, 0 if none.
find_one_test(ts, code) ==
    IF \E i \in 1..Len(ts) : ts[i].code = code
    THEN CHOOSE i \in 1..Len(ts) :
            /\ ts[i].code = code
            /\ \A j \in 1..(i - 1) : ts[j].code # code
    ELSE 0

\* Appending the documents of sequence ds in order: create_document in a loop.
RECURSIVE insert_all(_, _)
insert_all(coll, ds) ==
    IF ds = <<>> THEN coll ELSE insert_all(Append(coll, Head(ds)), Tail(ds))

\* ensure_seed_tests without the count_documents test.
ensure_seed_tests_unguarded(ts) ==
    IF ~db THEN ts ELSE insert_all(ts, DEFAULT_TESTS)

\* ensure_seed_tests(): the test collection afterwards.
ensure_seed_tests(ts) ==
    IF ~db THEN ts
    ELSE IF Len(ts) = 0 THEN insert_all(ts, DEFAULT_TESTS)
    ELSE ts

\* What database.create_document does when db is None: it returns an id
\* without storing anything, or it raises.
NoStorageOutcomes == {"id", "raise"}

\* ------------------------------------------------------------ /api/tests

\* list_tests(): [tests, status, items]
list_tests ==
    LET seeded == ensure_seed_tests(tests)
    IN  [tests |-> seeded, status |-> 200,
         items |-> IF db THEN seeded ELSE DEFAULT_TESTS]

\* create_test(payload): [tests, status]
create_test(payload) ==
    IF ~db THEN [tests |-> tests, status |-> 503]
    ELSE IF find_one_test(tests, payload.code) # 0
    THEN [tests |-> tests, status |-> 409]
    ELSE [tests |-> Append(tests, [code |-> payload.code, price |-> payload.price]),
          status |-> 200]

\* ---------------------------------------------------------- /api/bookings

\* create_booking without the 404: an unknown code is booked at price 0.
create_booking_unchecked(payload, nd) ==
    LET t == find_one_test(tests, payload.test_code)
        booking_data ==
            [user_id |-> payload.user_id, test_code |-> payload.test_code,
             scheduled_at |-> payload.scheduled_at, address |-> payload.address,
             promo_code |-> payload.promo_code,
             status |-> "booked", payment_status |-> "pending",
             price |-> IF t = 0 THEN Float(0) ELSE Float(tests[t].price),
             updated_at |-> None]
    IN  IF db
        THEN [bookings |-> Append(bookings, booking_data), status |-> 200,
              id |-> Oid(Len(bookings) + 1)]
        ELSE [bookings |-> bookings, status |-> 500, id |-> NotAnOid]

\* create_booking(payload); nd is create_document's outcome when there is no
\* storage.  [bookings, status, id]
create_booking(payload, nd) ==
    LET t == find_one_test(tests, payload.test_code)
        price == IF db THEN Float(tests[t].price) ELSE NoValue
        booking_data ==
            [user_id |-> payload.user_id, test_code |-> payload.test_code,
             scheduled_at |-> payload.scheduled_at, address |-> payload.address,
             promo_code |-> payload.promo_code,
             status |-> "booked", payment_status |-> "pending",
             price |-> price, updated_at |-> None]
    IN  IF db /\ t = 0
        THEN [bookings |-> bookings, status |-> 404, id |-> NotAnOid]
        ELSE IF db
        THEN [bookings |-> Append(bookings, booking_data), status |-> 200,
              id |-> Oid(Len(bookings) + 1)]
        ELSE IF nd = "id"
        THEN [bookings |-> bookings, status |-> 200, id |-> Oid(0)]
        ELSE [bookings |-> bookings, status |-> 500, id |-> NotAnOid]

\* update_booking replacing the document by the payload's fields: the price is lost.
apply_update_replacing(b, payload) ==
    [b EXCEPT
        !.scheduled_at = IF payload.scheduled_at # NoValue THEN payload.scheduled_at ELSE @,
        !.status = IF payload.status # None THEN payload.status ELSE @,
        !.address = IF payload.address # None THEN payload.address ELSE @,
        !.price = NoValue,
        !.updated_at = "utcnow"]

\* The $set of update_booking applied to one document: the fields of the
\* payload that are not None, and updated_at.
apply_update(b, payload) ==
    [b EXCEPT
        !.scheduled_at = IF payload.scheduled_at # NoValue THEN payload.scheduled_at ELSE @,
        !.status = IF payload.status # None THEN payload.status ELSE @,
        !.address = IF payload.address # None THEN payload.address ELSE @,
        !.updated_at = "utcnow"]

\* update_booking(booking_id, payload): [bookings, status]
update_booking(booking_id, payload) ==
    IF ~db THEN [bookings |-> bookings, status |-> 503]
    ELSE IF ~IsObjectId(booking_id) THEN [bookings |-> bookings, status |-> 500]
    ELSE IF booking_id.oid \notin 1..Len(bookings)
    THEN [bookings |-> bookings, status |-> 404]
    ELSE [bookings |-> [bookings EXCEPT ![booking_id.oid] = apply_update(@, payload)],
          status |-> 200]

\* ------------------------------------------------------- /api/reports/view

\* The 24 characters of user_id are hexadecimal digits (bson.ObjectId takes it).
IsHex24(user_id) == user_id = HexUserId

\* db["user"].find_one({"_id": id}): the index in USERS, 0 if none.
find_one_user(id) ==
    IF \E i \in 1..Len(USERS) : USERS[i]._id = id
    THEN CHOOSE i \in 1..Len(USERS) : USERS[i]._id = id
    ELSE 0

\* The owner lookup without the ObjectId branch.
owner_of_plain(booking) == find_one_user([t |-> "str", v |-> booking.user_id])

\* The owner lookup of view_report: by ObjectId(user_id) when user_id has 24
\* characters, by the plain string otherwise.
owner_of(booking) ==
    IF Len24(booking.user_id)
    THEN find_one_user([t |-> "oid", v |-> booking.user_id])
    ELSE find_one_user([t |-> "str", v |-> booking.user_id])

\* db["report"].find_one({"booking_id": id}) finds a document.
has_report(booking_id) == \E r \in reports : r.booking_id = booking_id

\* view_report looking for the report before it checks the PIN.
view_report_report_first(payload) ==
    IF ~db THEN [status |-> 503, detail |-> "Database not available"]
    ELSE IF ~IsObjectId(payload.booking_id)
    THEN [status |-> 500, detail |-> "InvalidId"]
    ELSE IF payload.booking_id.oid \notin 1..Len(bookings)
    THEN [status |-> 404, detail |-> "Booking not found"]
    ELSE LET booking == bookings[payload.booking_id.oid]
         IN  IF Len24(booking.user_id) /\ ~IsHex24(booking.user_id)
             THEN [status |-> 500, detail |-> "InvalidId"]
             ELSE IF ~has_report(payload.booking_id)
             THEN [status |-> 404, detail |-> "Report not available yet"]
             ELSE IF \/ owner_of(booking) = 0
                     \/ Str(USERS[owner_of(booking)].pin) # payload.pin
             THEN [status |-> 401, detail |-> "Invalid PIN"]
             ELSE [status |-> 200, detail |-> "report"]

\* view_report(payload): [status, detail]
view_report(payload) ==
    IF ~db THEN [status |-> 503, detail |-> "Database not available"]
    ELSE IF ~IsObjectId(payload.booking_id)
    THEN [status |-> 500, detail |-> "InvalidId"]
    ELSE IF payload.booking_id.oid \notin 1..Len(bookings)
    THEN [status |-> 404, detail |-> "Booking not found"]
    ELSE LET booking == bookings[payload.booking_id.oid]
         IN  IF Len24(booking.user_id) /\ ~IsHex24(booking.user_id)
             THEN [status |-> 500, detail |-> "InvalidId"]
             ELSE IF \/ owner_of(booking) = 0
                     \/ Str(USERS[owner_of(booking)].pin) # payload.pin
             THEN [status |-> 401, detail |-> "Invalid PIN"]
             ELSE IF ~has_report(payload.booking_id)
             THEN [status |-> 404, detail |-> "Report not available yet"]
             ELSE [status |-> 200, detail |-> "report"]

\* ------------------------------------------------------------- /api/chat

\* The loop assigning instead of updating: the last matching symptom wins.
RECURSIVE scan_symptoms_assigning(_, _, _)
scan_symptoms_assigning(i, t, suggested) ==
    IF i > Len(SYMPTOM_TO_TESTS) THEN suggested
    ELSE scan_symptoms_assigning(i + 1, t,
            IF Contains(t, SYMPTOM_TO_TESTS[i].symptom)
            THEN Range(SYMPTOM_TO_TESTS[i].tests)
            ELSE suggested)

\* The loop over SYMPTOM_TO_TESTS.items() from entry i on: suggested.update(tests)
\* for every symptom that occurs in t.
RECURSIVE scan_symptoms(_, _, _)
scan_symptoms(i, t, suggested) ==
    IF i > Len(SYMPTOM_TO_TESTS) THEN suggested
    ELSE scan_symptoms(i + 1, t,
            IF Contains(t, SYMPTOM_TO_TESTS[i].symptom)
            THEN suggested \cup Range(SYMPTOM_TO_TESTS[i].tests)
            ELSE suggested)

\* The four heuristic rules, applied to the lower-cased text t.
heuristics(t) ==
    (IF AnyIn(<<K_tired, K_weak>>, t) THEN {"CBC", "IRON", "B12"} ELSE {})
    \cup (IF AnyIn(<<K_fever, K_cold, K_cough>>, t) THEN {"CBC", "CRP"} ELSE {})
    \cup (IF Contains(t, K_yellow) THEN {"LFT"} ELSE {})
    \cup (IF Contains(t, K_sugar) THEN {"FBS", "HBA1C"} ELSE {})

\* The set `suggested` that chat computes from the lower-cased text t.
suggest(t) ==
    LET suggested == scan_symptoms(1, t, {})
    IN  IF /\ suggested = {}
           /\ AnyIn(<<K_tired, K_weak, K_cold, K_cough, K_pain, K_yellow, K_sugar>>, t)
        THEN heuristics(t)
        ELSE suggested

\* The report-access test asking for both "view" and "show".
report_intent_both(t) ==
    Contains(t, K_report) /\ (Contains(t, K_view) /\ Contains(t, K_show))

\* The report-access test of the dispatcher, on the lower-cased text t.
report_intent(t) ==
    Contains(t, K_report) /\ (Contains(t, K_view) \/ Contains(t, K_show))

\* msg.payload: None (NoValue) or a dict, kept as a set of <<key, value>>.
Dict(d) == [t |-> "dict", d |-> d]

\* payload.get(k)
get(payload, k) ==
    IF \E kv \in payload.d : kv[1] = k
    THEN (CHOOSE kv \in payload.d : kv[1] = k)[2]
    ELSE None

\* Python truthiness of msg.payload: None and the empty dict are falsy.
payload_truthy(payload) == payload # NoValue /\ payload.d # {}

\* CreateBooking(**{...}) inside the try block validates: the datetime parsed,
\* user_id and test_code strings.
booking_parses(payload) ==
    /\ fromisoformat(get(payload, "scheduled_at")) # NoValue
    /\ get(payload, "user_id") # None
    /\ get(payload, "test_code") # None

parsed_booking(payload) ==
    [user_id |-> get(payload, "user_id"), test_code |-> get(payload, "test_code"),
     scheduled_at |-> fromisoformat(get(payload, "scheduled_at")),
     address |-> get(payload, "address"), promo_code |-> None]

\* The four reply shapes, and the shape of no reply (an HTTPException).
reply_action == [type |-> "action_required", message |-> [m |-> "enter_pin"],
                 more |-> [action |-> "verify_pin"]]
reply_booked(booking, id) ==
    [type |-> "booking_confirmed",
     message |-> [m |-> "booked", code |-> booking.test_code,
                  at |-> strftime(booking.scheduled_at)],
     more |-> [booking_id |-> id]]
reply_suggestions(found) ==
    [type |-> "suggestions", message |-> [m |-> "recommended"],
     more |-> [tests |-> found, cta |-> "book"]]
reply_text == [type |-> "text", message |-> [m |-> "help"], more |-> [none |-> TRUE]]
no_reply == [type |-> "error", message |-> [m |-> "error"], more |-> [none |-> TRUE]]

\* The inbound message saved first: the log afterwards.
save_user(msg) ==
    IF db /\ Truthy(msg.user_id)
    THEN Append(messages, [user_id |-> msg.user_id, role |-> "user", text |-> msg.text])
    ELSE messages

\* _save_assistant without the msg.user_id test.
save_assistant_always(log, msg, reply) ==
    IF db
    THEN Append(log, [user_id |-> msg.user_id, role |-> "assistant",
                      text |-> reply.message, context |-> reply])
    ELSE log

\* _save_assistant(msg, reply), on the log `log`.
save_assistant(log, msg, reply) ==
    IF db /\ Truthy(msg.user_id)
    THEN Append(log, [user_id |-> msg.user_id, role |-> "assistant",
                      text |-> reply.message, context |-> reply])
    ELSE log

\* The documents of ts whose code is in codes, in ts's order.
with_codes(ts, codes) == SelectSeq(ts, LAMBDA d : d.code \in codes)

\* chat(msg): [tests, bookings, messages, status, reply]; nd as in create_booking.
chat(msg, nd) ==
    LET log == save_user(msg)
        t == Lower(msg.text)
        done(ts, bs, reply) ==
            [tests |-> ts, bookings |-> bs, messages |-> save_assistant(log, msg, reply),
             status |-> 200, reply |-> reply]
        failed400 ==
            [tests |-> tests, bookings |-> bookings, messages |-> log,
             status |-> 400, reply |-> no_reply]
    IN  IF report_intent(t) THEN done(tests, bookings, reply_action)
        ELSE IF msg.intent = "book_test" /\ payload_truthy(msg.payload)
        THEN IF ~booking_parses(msg.payload) THEN failed400
             ELSE LET booking == parsed_booking(msg.payload)
                      result == create_booking(booking, nd)
                  IN  IF result.status # 200 THEN failed400
                      ELSE done(tests, result.bookings, reply_booked(booking, result.id))
        ELSE IF suggest(t) # {}
        THEN LET seeded == ensure_seed_tests(tests)
                 found == IF db THEN with_codes(seeded, suggest(t))
                          ELSE with_codes(DEFAULT_TESTS, suggest(t))
             IN  done(seeded, bookings, reply_suggestions(found))
        ELSE done(tests, bookings, reply_text)

\* ------------------------------------------------------------ the requests

W_show     == <<"S","h","o","w">>
W_my       == <<"m","y">>
W_REPORT   == <<"R","E","P","O","R","T">>
W_report   == <<"r","e","p","o","r","t">>
W_preview  == <<"p","r","e","v","i","e","w">>
W_Dizzy    == <<"D","i","z","z","y">>
W_FEVER    == <<"F","E","V","E","R">>
W_fatigue  == <<"f","a","t","i","g","u","e","d">>
W_jaundice == <<"J","a","u","n","d","i","c","e">>
W_diabetes == <<"d","i","a","b","e","t","e","s">>
W_tired    == <<"T","i","r","e","d">>
W_weak     == <<"w","e","a","k","n","e","s","s">>
W_cold     == <<"c","o","l","d">>
W_cough    == <<"C","O","U","G","H">>
W_pain     == <<"p","a","i","n","f","u","l">>
W_yellow   == <<"y","e","l","l","o","w">>
W_sugar    == <<"S","u","g","a","r">>
W_hello    == <<"h","e","l","l","o">>

\* The words of ws joined by single spaces.
RECURSIVE Join(_)
Join(ws) ==
    IF ws = <<>> THEN <<>>
    ELSE IF Len(ws) = 1 THEN ws[1]
    ELSE ws[1] \o <<" ">> \o Join(Tail(ws))

\* The chat texts of the requests.
ChatTexts ==
    { Join(<<W_show, W_my, W_REPORT>>),
      Join(<<W_report, W_preview>>),
      Join(<<W_show, W_REPORT, W_FEVER>>),
      Join(<<W_Dizzy, W_FEVER>>),
      W_hello }

Date1 == fromisoformat("2026-11-05T10:00:00")
Date2 == fromisoformat("2026-12-24T15:30:00")

CreateTestPayloads == {[code |-> "CBC", price |-> 21], [code |-> "XRAY", price |-> 35]}

TestCodes == {"CBC", "XRAY", "NOPE"}

\* Requests to create_booking for the users U.
CreateBookingPayloads(U) ==
    { [user_id |-> u, test_code |-> c, scheduled_at |-> Date1,
       address |-> None, promo_code |-> None] :
      u \in U, c \in TestCodes }

UpdateBookingPayloads ==
    { [scheduled_at |-> NoValue, status |-> "cancelled", address |-> None],
      [scheduled_at |-> Date2, status |-> None, address |-> "home"] }

\* The ids a request may name: those of the stored bookings, the next one
\* (not stored yet) and a string that is no ObjectId.
BookingIds == {Oid(n) : n \in 1..(Len(bookings) + 1)} \cup {NotAnOid}

\* The user_id strings of the report gate's bookings: the three users, a
\* string no user has, and the 24 characters that are no ObjectId.
ReportUserIds == {HexUserId, "u2", "u3", "ghost", BadUserId}

Pins == { <<"1","2","3","4">>, <<"4","3","2","1">>, <<"N","o","n","e">>, <<"0","0","0","0">> }

PayloadOk ==
    Dict({<<"user_id", "u2">>, <<"test_code", "CBC">>,
          <<"scheduled_at", "2026-11-05T10:00:00">>, <<"address", "home">>})
PayloadUnknownCode ==
    Dict({<<"user_id", "u2">>, <<"test_code", "NOPE">>,
          <<"scheduled_at", "2026-11-05T10:00:00">>})

ChatPayloads ==
    { NoValue,
      Dict({}),
      PayloadOk,
      PayloadUnknownCode,
      Dict({<<"user_id", "u2">>, <<"test_code", "CBC">>,
            <<"scheduled_at", "tomorrow 10am">>}),
      Dict({<<"user_id", "u2">>, <<"test_code", "CBC">>}),
      Dict({<<"user_id", "u2">>, <<"scheduled_at", "2026-11-05T10:00:00">>}),
      Dict({<<"test_code", "CBC">>, <<"scheduled_at", "2026-11-05T10:00:00">>}) }

\* The chat requests of SpecChat, from no sender (None) and from "u2": every
\* text, with every payload under intent "book_test" and with no payload or a
\* well-formed one under no intent; and every text from the sender "".
ChatMessages ==
    { [user_id |-> u, text |-> x, intent |-> "book_test", payload |-> p] :
      u \in {None, "u2"}, x \in ChatTexts, p \in ChatPayloads }
    \cup
    { [user_id |-> u, text |-> x, intent |-> None, payload |-> p] :
      u \in {None, "u2"}, x \in ChatTexts, p \in {NoValue, PayloadOk} }
    \cup
    { [user_id |-> "", text |-> x, intent |-> None, payload |-> NoValue] :
      x \in ChatTexts }

\* The chat requests of Spec: anonymous turns that book, fail to book, seed
\* the catalog through the suggestion branch, or ask for a report.
ChatMessagesSmall ==
    { [user_id |-> None, text |-> W_hello, intent |-> "book_test", payload |-> PayloadOk],
      [user_id |-> None, text |-> W_hello, intent |-> "book_test", payload |-> PayloadUnknownCode],
      [user_id |-> None, text |-> Join(<<W_Dizzy, W_FEVER>>), intent |-> None, payload |-> NoValue],
      [user_id |-> None, text |-> Join(<<W_show, W_my, W_REPORT>>), intent |-> "book_test",
       payload |-> PayloadOk] }

\* The words and the texts of SpecClassify: every sequence of at most MaxWords
\* words, joined by spaces.
Vocabulary ==
    { W_Dizzy, W_FEVER, W_fatigue, W_jaundice, W_diabetes, W_tired, W_weak,
      W_cold, W_cough, W_pain, W_yellow, W_sugar, W_hello, W_report }

ClassifyTexts ==
    { Join(ws) : ws \in UNION { [1..n -> Vocabulary] : n \in 0..MaxWords } }

\* create_document's outcomes that can happen: without storage both, with it
\* the parameter is not read.
Outcomes == IF db THEN {"id"} ELSE NoStorageOutcomes

\* ---------------------------------------------------------------- actions

Response(op, status, kind) == [op |-> op, status |-> status, kind |-> kind]

\* A worker thread with no request.
Idle == [pc |-> "idle", op |-> "none", code |-> "none", price |-> 0, i |-> 0]

Init ==
    /\ db \in BOOLEAN
    /\ tests = <<>>
    /\ bookings = <<>>
    /\ reports = {}
    /\ messages = <<>>
    /\ last = Response("start", 200, "none")
    /\ text = <<>>
    /\ procs = [p \in 1..Threads |-> Idle]

ListTests ==
    /\ tests' = list_tests.tests
    /\ last' = Response("list_tests", list_tests.status, "items")
    /\ UNCHANGED <<db, bookings, reports, messages, text, procs>>

CreateTest ==
    \E payload \in CreateTestPayloads :
        /\ Len(tests) < MaxTests
        /\ tests' = create_test(payload).tests
        /\ last' = Response("create_test", create_test(payload).status, payload.code)
        /\ UNCHANGED <<db, bookings, reports, messages, text, procs>>

CreateBookingFor(U) ==
    \E payload \in CreateBookingPayloads(U), nd \in Outcomes :
        /\ Len(bookings) < MaxBookings
        /\ bookings' = create_booking(payload, nd).bookings
        /\ last' = Response("create_booking", create_booking(payload, nd).status, "booking")
        /\ UNCHANGED <<db, tests, reports, messages, text, procs>>

CreateBooking == CreateBookingFor({"u2"})

UpdateBooking ==
    \E booking_id \in BookingIds, payload \in UpdateBookingPayloads :
        /\ bookings' = update_booking(booking_id, payload).bookings
        /\ last' = Response("update_booking", update_booking(booking_id, payload).status, "booking")
        /\ UNCHANGED <<db, tests, reports, messages, text, procs>>

ChatWith(M) ==
    \E msg \in M, nd \in Outcomes :
        LET r == chat(msg, nd)
        IN  /\ Len(r.messages) <= MaxMessages
            /\ Len(r.bookings) <= MaxBookings
            /\ tests' = r.tests
            /\ bookings' = r.bookings
            /\ messages' = r.messages
            /\ last' = Response("chat", r.status, r.reply.type)
            /\ UNCHANGED <<db, reports, text, procs>>

ChatSmall == ChatWith(ChatMessagesSmall)

\* The catalog and the bookings: every handler that writes them.
Next ==
    \/ ListTests
    \/ CreateTest
    \/ CreateBooking
    \/ UpdateBooking
    \/ ChatSmall

Spec == Init /\ [][Next]_vars

\* ------------------------------------------------------ the chat dispatcher

Chat == ChatWith(ChatMessages)

NextChat ==
    \/ ListTests
    \/ Chat

SpecChat == Init /\ [][NextChat]_vars

\* ---------------------------------------------------------- the report gate

CreateBookingOfUser == CreateBookingFor(ReportUserIds)

\* The laboratory stores the report of a booking (no handler of this program
\* writes the report collection).
StoreReport ==
    \E n \in 1..Len(bookings) :
        /\ db
        /\ reports' = reports \cup {[booking_id |-> Oid(n), test_code |-> bookings[n].test_code]}
        /\ last' = Response("store_report", 200, "report")
        /\ UNCHANGED <<db, tests, bookings, messages, text, procs>>

ViewReport ==
    \E booking_id \in BookingIds, pin \in Pins :
        LET r == view_report([booking_id |-> booking_id, pin |-> pin])
        IN  /\ last' = Response("view_report", r.status, r.detail)
            /\ UNCHANGED <<db, tests, bookings, reports, messages, text, procs>>

NextReport ==
    \/ ListTests
    \/ CreateBookingOfUser
    \/ StoreReport
    \/ ViewReport

SpecReport == Init /\ [][NextReport]_vars

\* ----------------------------------------------------- the symptom classifier

InitClassify ==
    /\ db \in BOOLEAN
    /\ tests = <<>>
    /\ bookings = <<>>
    /\ reports = {}
    /\ messages = <<>>
    /\ last = Response("start", 200, "none")
    /\ text \in ClassifyTexts
    /\ procs = [p \in 1..Threads |-> Idle]

\* One anonymous chat turn with the text drawn at the start, no intent and no
\* payload.
Classify ==
    LET r == chat([user_id |-> None, text |-> text, intent |-> None, payload |-> NoValue], "id")
    IN  /\ last.op = "start"
        /\ tests' = r.tests
        /\ last' = Response("chat", r.status, r.reply.type)
        /\ UNCHANGED <<db, bookings, reports, messages, text, procs>>

NextClassify == Classify

SpecClassify == InitClassify /\ [][NextClassify]_vars

\* ------------------------------------------- concurrent requests on the catalog

\* FastAPI runs each `def` handler on a worker thread: the handlers' storage
\* calls interleave.  Each thread serves one request; a step is one storage call.

\* A thread takes a request: list_tests, a chat turn that reaches the
\* suggestion branch, or create_test.
Accept(p) ==
    /\ procs[p].pc = "idle"
    /\ \/ \E op \in {"list_tests", "chat"} :
            procs' = [procs EXCEPT ![p] = [Idle EXCEPT !.pc = "count", !.op = op]]
       \/ \E payload \in CreateTestPayloads :
            procs' = [procs EXCEPT ![p] =
                        [Idle EXCEPT !.pc = "find", !.op = "create_test",
                                     !.code = payload.code, !.price = payload.price]]
    /\ UNCHANGED <<db, tests, bookings, reports, messages, last, text>>

\* ensure_seed_tests: db is None, or the count_documents call.
CountDocuments(p) ==
    /\ procs[p].pc = "count"
    /\ procs' = [procs EXCEPT ![p] =
                    IF db /\ Len(tests) = 0
                    THEN [@ EXCEPT !.pc = "seed", !.i = 1]
                    ELSE [@ EXCEPT !.pc = "read"]]
    /\ UNCHANGED <<db, tests, bookings, reports, messages, last, text>>

\* ensure_seed_tests: one create_document of the loop.
SeedNext(p) ==
    /\ procs[p].pc = "seed"
    /\ tests' = Append(tests, DEFAULT_TESTS[procs[p].i])
    /\ procs' = [procs EXCEPT ![p] =
                    IF @.i = Len(DEFAULT_TESTS)
                    THEN [@ EXCEPT !.pc = "read"]
                    ELSE [@ EXCEPT !.i = @ + 1]]
    /\ UNCHANGED <<db, bookings, reports, messages, last, text>>

\* The read that ends list_tests and the chat turn, and the response.
ReadTests(p) ==
    /\ procs[p].pc = "read"
    /\ procs' = [procs EXCEPT ![p] = [@ EXCEPT !.pc = "done"]]
    /\ last' = Response(procs[p].op, 200,
                        IF procs[p].op = "chat" THEN "suggestions" ELSE "items")
    /\ UNCHANGED <<db, tests, bookings, reports, messages, text>>

\* create_test: db is None (503), or the find_one call and the 409.
FindExisting(p) ==
    /\ procs[p].pc = "find"
    /\ IF ~db
       THEN /\ procs' = [procs EXCEPT ![p] = [@ EXCEPT !.pc = "done"]]
            /\ last' = Response("create_test", 503, procs[p].code)
       ELSE IF find_one_test(tests, procs[p].code) # 0
       THEN /\ procs' = [procs EXCEPT ![p] = [@ EXCEPT !.pc = "done"]]
            /\ last' = Response("create_test", 409, procs[p].code)
       ELSE /\ procs' = [procs EXCEPT ![p] = [@ EXCEPT !.pc = "insert"]]
            /\ last' = last
    /\ UNCHANGED <<db, tests, bookings, reports, messages, text>>

\* create_test: the create_document call and the response.
InsertTest(p) ==
    /\ procs[p].pc = "insert"
    /\ tests' = Append(tests, [code |-> procs[p].code, price |-> procs[p].price])
    /\ procs' = [procs EXCEPT ![p] = [@ EXCEPT !.pc = "done"]]
    /\ last' = Response("create_test", 200, procs[p].code)
    /\ UNCHANGED <<db, bookings, reports, messages, text>>

NextConc ==
    \E p \in 1..Threads :
        \/ Accept(p)
        \/ CountDocuments(p)
        \/ SeedNext(p)
        \/ ReadTests(p)
        \/ FindExisting(p)
        \/ InsertTest(p)

SpecConc == Init /\ [][NextConc]_vars

\* ------------------------------------------------------------------ claims

\* The text x, lower-cased, holds "report" and also "view" or "show".
AsksForReport(x) ==
    /\ Contains(Lower(x), K_report)
    /\ Contains(Lower(x), K_view) \/ Contains(Lower(x), K_show)

\* C1: every chat message whose lower-cased text holds "report" and also
\* "view" or "show" gets the action_required reply with action verify_pin,
\* whatever its intent, payload and symptom words; the turn creates no booking
\* and gives no suggestions reply.
C1_ReportIntentFirst ==
    \A msg \in ChatMessages : \A nd \in Outcomes :
        AsksForReport(msg.text) =>
            LET r == chat(msg, nd)
            IN  /\ r.status = 200
                /\ r.reply.type = "action_required"
                /\ r.reply.more.action = "verify_pin"
                /\ r.bookings = bookings
                /\ r.tests = tests

\* A logged turn "Show REPORT FEVER" was answered with the PIN prompt while the
\* catalog stayed unseeded and no booking exists.
C1_Witness ==
    /\ last = Response("chat", 200, "action_required")
    /\ Len(messages) = 2
    /\ messages[1].text = Join(<<W_show, W_REPORT, W_FEVER>>)
    /\ messages[2].context = reply_action
    /\ bookings = <<>>
    /\ tests = <<>>

\* C2 as stated: create_booking with a test_code that matches no Test record
\* always fails with 404 and leaves the booking collection unchanged.
C2_Original ==
    \A payload \in CreateBookingPayloads({"u2"}) : \A nd \in Outcomes :
        (\A i \in 1..Len(tests) : tests[i].code # payload.test_code) =>
            /\ create_booking(payload, nd).status = 404
            /\ Len(create_booking(payload, nd).bookings) = Len(bookings)

\* C2, amended: with storage available, create_booking with a test_code that
\* matches no Test record fails with 404 and leaves the booking collection
\* unchanged.
C2_UnknownCodeNotFound ==
    \A payload \in CreateBookingPayloads({"u2"}) : \A nd \in Outcomes :
        (db /\ \A i \in 1..Len(tests) : tests[i].code # payload.test_code) =>
            /\ create_booking(payload, nd).status = 404
            /\ create_booking(payload, nd).bookings = bookings
            /\ Len(create_booking(payload, nd).bookings) = Len(bookings)

\* create_booking has just answered 404 while a booking is stored and the
\* catalog is seeded.
C2_Witness ==
    /\ db
    /\ last = Response("create_booking", 404, "booking")
    /\ Len(bookings) >= 1
    /\ Len(tests) >= Len(DEFAULT_TESTS)

\* C3: with storage available, every step keeps the price of every stored
\* booking, and every booking a step adds has status "booked", payment_status
\* "pending" and a price that is not None and equals the price the catalog
\* had for its test_code when the step began.
C3_PriceSnapshot ==
    [][ db =>
          /\ Len(bookings') >= Len(bookings)
          /\ \A i \in 1..Len(bookings) : bookings'[i].price = bookings[i].price
          /\ \A i \in (Len(bookings) + 1)..Len(bookings') :
                /\ bookings'[i].price # NoValue
                /\ find_one_test(tests, bookings'[i].test_code) # 0
                /\ bookings'[i].price =
                      Float(tests[find_one_test(tests, bookings'[i].test_code)].price)
                /\ bookings'[i].status = "booked"
                /\ bookings'[i].payment_status = "pending"
      ]_vars

\* A booking of CBC made at the price 21 of a catalog that was never seeded,
\* later rescheduled and cancelled by update_booking, still at price 21.
C3_Witness ==
    /\ db
    /\ \E i \in 1..Len(bookings) :
          /\ bookings[i].test_code = "CBC"
          /\ bookings[i].price = Float(21)
          /\ bookings[i].status = "cancelled"
          /\ bookings[i].scheduled_at = Date2
          /\ bookings[i].updated_at = "utcnow"

\* The user document whose _id, as a string, is the booking's user_id.
OwnersOf(booking) == {i \in 1..Len(USERS) : USERS[i]._id.v = booking.user_id}

RejectedByObjectId(user_id) == user_id = BadUserId

CountCode(ts, c) == Cardinality({i \in 1..Len(ts) : ts[i].code = c})

DefaultCodes == {DEFAULT_TESTS[i].code : i \in 1..Len(DEFAULT_TESTS)}

\* C6: the seed guard inserts the default tests exactly when storage is
\* available and the test collection is empty; run again on its own result it
\* inserts nothing; afterwards no default code is stored twice, and each is
\* stored once when the guard seeded.  list_tests leaves the collection the
\* guard leaves.
C6_SeedIdempotent ==
    LET once == ensure_seed_tests(tests)
        twice == ensure_seed_tests(once)
    IN  /\ once = IF db /\ tests = <<>> THEN DEFAULT_TESTS ELSE tests
        /\ twice = once
        /\ list_tests.tests = once
        /\ \A c \in DefaultCodes : CountCode(twice, c) <= 1
        /\ (db /\ tests = <<>>) => \A c \in DefaultCodes : CountCode(twice, c) = 1

\* list_tests has just run on a catalog that was seeded earlier and has had
\* XRAY added since: the guard ran again and inserted nothing.
C6_Witness ==
    /\ last = Response("list_tests", 200, "items")
    /\ Len(tests) = Len(DEFAULT_TESTS) + 1
    /\ tests[Len(tests)].code = "XRAY"
    /\ \A c \in DefaultCodes : CountCode(tests, c) = 1

\* C7: with storage available, a chat turn with a (non-empty) user_id that
\* ends in a reply appends the user record with the inbound text and then the
\* assistant record with the reply's message, and nothing else; a turn without
\* user_id appends nothing; no step changes or removes a stored message.
C7_TurnLogged ==
    /\ [](\A msg \in ChatMessages : \A nd \in Outcomes :
            LET r == chat(msg, nd)
                user_doc == [user_id |-> msg.user_id, role |-> "user", text |-> msg.text]
                assistant_doc == [user_id |-> msg.user_id, role |-> "assistant",
                                  text |-> r.reply.message, context |-> r.reply]
            IN  /\ (db /\ Truthy(msg.user_id) /\ r.status = 200) =>
                      /\ r.reply.type \in {"action_required", "booking_confirmed",
                                           "suggestions", "text"}
                      /\ r.messages = messages \o <<user_doc, assistant_doc>>
                /\ ~Truthy(msg.user_id) => r.messages = messages)
    /\ [][ /\ Len(messages') >= Len(messages)
           /\ \A i \in 1..Len(messages) : messages'[i] = messages[i] ]_vars

\* A logged turn that booked: the user record, then the assistant record with
\* the confirmation.
C7_Witness ==
    /\ last = Response("chat", 200, "booking_confirmed")
    /\ Len(messages) = 2
    /\ messages[1].role = "user"
    /\ messages[1].text \in ChatTexts
    /\ messages[2].role = "assistant"
    /\ messages[2].text = messages[2].context.message
    /\ messages[2].text.m = "booked"
    /\ Len(bookings) = 1

\* The ISO-8601 strings among the scheduled_at values of the requests.
IsoStrings == {"2026-11-05T10:00:00", "2026-12-24T15:30:00"}

\* The payload leaves out a required field or its scheduled_at is no ISO-8601
\* string.
Malformed(payload) ==
    \/ get(payload, "scheduled_at") \notin IsoStrings
    \/ get(payload, "user_id") = None
    \/ get(payload, "test_code") = None

\* The catalog has no test of the payload's test_code.
UnknownCode(payload) ==
    \A i \in 1..Len(tests) : tests[i].code # get(payload, "test_code")

\* The turn fails with 400, creates no booking and saves no assistant message.
FailsCleanly(msg, r) ==
    /\ r.status = 400
    /\ r.bookings = bookings
    /\ r.messages \in {messages,
                       Append(messages, [user_id |-> msg.user_id, role |-> "user",
                                         text |-> msg.text])}

\* C8 as stated (storage available, text not a report request): a book_test
\* turn with a non-null payload that fails ends in 400 with no booking and no
\* assistant message.
C8_Original ==
    \A msg \in ChatMessages : \A nd \in Outcomes :
        (/\ db
         /\ ~AsksForReport(msg.text)
         /\ msg.intent = "book_test"
         /\ msg.payload # NoValue
         /\ Malformed(msg.payload) \/ UnknownCode(msg.payload))
        => FailsCleanly(msg, chat(msg, nd))

\* C8, amended: non-empty payload in place of non-null, and the unknown
\* test_code fails only with storage available.
C8_BadBookingRejected ==
    \A msg \in ChatMessages : \A nd \in Outcomes :
        (/\ ~AsksForReport(msg.text)
         /\ msg.intent = "book_test"
         /\ msg.payload # NoValue
         /\ msg.payload.d # {}
         /\ Malformed(msg.payload) \/ (db /\ UnknownCode(msg.payload)))
        => FailsCleanly(msg, chat(msg, nd))

\* A logged book_test turn has just failed with 400 on a seeded catalog: its
\* user record is the only message.
C8_Witness ==
    /\ db
    /\ last = Response("chat", 400, "error")
    /\ Len(tests) = Len(DEFAULT_TESTS)
    /\ Len(messages) = 1
    /\ messages[1].role = "user"
    /\ bookings = <<>>

\* C9: in every state that interleaved list_tests, chat and create_test
\* requests reach, no two Test records have the same code.
C9_UniqueCodes ==
    \A i, j \in 1..Len(tests) : i # j => tests[i].code # tests[j].code

\* The secondary keywords of the classifier.
SecondaryKeywords == <<K_tired, K_weak, K_cold, K_cough, K_pain, K_yellow, K_sugar>>

\* The entries of SYMPTOM_TO_TESTS whose symptom occurs in the lower-cased text.
MatchedSymptoms(x) ==
    {i \in 1..Len(SYMPTOM_TO_TESTS) : Contains(Lower(x), SYMPTOM_TO_TESTS[i].symptom)}

\* C10: for a text that reaches the classifier, when a symptom of the table
\* occurs in it the suggested set is the union of the tests of the symptoms
\* that occur (dizzy and fever: CBC, IRON, CRP) and the heuristics add nothing;
\* when none occurs the set is empty unless a secondary keyword occurs; and the
\* reply is "suggestions" exactly when the set is not empty, else the fallback
\* "text".
C10_SuggestedIsUnion ==
    LET suggested == suggest(Lower(text))
        union == UNION { Range(SYMPTOM_TO_TESTS[i].tests) : i \in MatchedSymptoms(text) }
    IN  /\ MatchedSymptoms(text) # {} => suggested = union
        /\ MatchedSymptoms(text) = {} =>
              /\ suggested \subseteq DefaultCodes
              /\ ~AnyIn(SecondaryKeywords, Lower(text)) => suggested = {}
        /\ text = Join(<<W_Dizzy, W_FEVER>>) => suggested = {"CBC", "IRON", "CRP"}
        /\ (last.op = "chat" /\ ~AsksForReport(text)) =>
              /\ last.status = 200
              /\ last.kind = "suggestions" <=> suggested # {}
              /\ last.kind = "text" <=> suggested = {}

\* The turn "Dizzy FEVER" has been answered with suggestions, and the
\* suggestion branch has seeded the catalog.
C10_Witness ==
    /\ text = Join(<<W_Dizzy, W_FEVER>>)
    /\ last = Response("chat", 200, "suggestions")
    /\ tests = DEFAULT_TESTS

====
